---------------------------- MODULE Spec2Model ----------------------------
(***************************************************************************)
(* A model of the joyofpainting genetic engine: the weighted colour        *)
(* sampler (weighted_random.py), the genome (painting.py) and the          *)
(* population engine (genetics.py).                                        *)
(*                                                                         *)
(* Python objects that are mutated in place or compared by identity        *)
(* (Painting objects, the lists of strokes they hold) live in two heaps,   *)
(* `paintings` and `lists`; every other value is a TLA+ value.  A call     *)
(* that raises leaves the name of the exception in `raised`.               *)
(***************************************************************************)
EXTENDS Integers, Sequences, FiniteSets, TLC

VARIABLES
    constructed,      \* whether __init__ has returned (the fields below are set)
    image,            \* the PIL image: [size |-> <<w, h>>, data |-> pixels]
    generations,      \* the driver's generations argument (jop.py 79)
    num_strokes,      \* GeneticPainting.num_strokes
    pop_size,         \* GeneticPainting.pop_size
    mutation_chance,  \* GeneticPainting.mutation_chance, in units of 1/Den
    fit_percentage,   \* GeneticPainting.fit_percentage, in units of 1/Den
    lucky_few,        \* GeneticPainting.lucky_few
    num_children,     \* GeneticPainting.num_children
    generation,       \* GeneticPainting.generation
    canvas,           \* GeneticPainting.canvas
    weights,          \* GeneticPainting.weights, a WeightedRandomColors
    population,       \* GeneticPainting.population: a sequence of Painting ids
    paintings,        \* heap: Painting id -> [ref, canvas, num_strokes, strokes]
    lists,            \* heap: list id -> the sequence of strokes it holds
    scored,           \* the caller's latest score_population result
    survivors,        \* the caller's latest cull_the_herd result
    call,             \* the latest call: its name, arguments and random draws
    raised,           \* the exception the latest call ended in, or NoError
    ret               \* the value the latest call returned

vars == <<constructed, image, generations, num_strokes, pop_size, mutation_chance, fit_percentage,
          lucky_few, num_children, generation, canvas, weights, population,
          paintings, lists, scored, survivors, call, raised, ret>>

config == <<image, generations, num_strokes, pop_size, mutation_chance, fit_percentage,
            lucky_few, num_children, canvas, weights>>

-----------------------------------------------------------------------------
(* Values *)

\* An attribute or result that is not bound yet, as a value of the type it
\* is bound to later (TLC compares values of one type only)
NoneInt == 0 - 1
NoneSeq == <<>>
NoneWeights == [totals |-> <<>>, colors |-> <<>>]
NonePainting ==
    [ref |-> "", canvas |-> <<>>, num_strokes |-> 0 - 1, strokes |-> <<>>]
NoError == "NoError"

\* painting.py: Color is a namedtuple of three channels; image pixels may
\* carry a fourth (alpha) channel.
RED == <<255, 0, 0>>
BLUE == <<0, 0, 255>>
GREEN == <<0, 255, 0>>
Palette == <<RED, BLUE, GREEN>>

\* canvas[:3], color_generator.next()[:3] followed by Color(*rgb)
Color(c) == SubSeq(c, 1, 3)

Min(a, b) == IF a < b THEN a ELSE b
Max(a, b) == IF a > b THEN a ELSE b

\* Python's // on integers: floor division (the divisor is never negative here)
FloorDiv(a, b) == a \div b

-----------------------------------------------------------------------------
(* genetics.py 56-62: the colour histogram of the image *)

RECURSIVE Occurrences(_, _)
Occurrences(data, c) ==
    IF data = <<>> THEN 0
    ELSE (IF Head(data) = c THEN 1 ELSE 0) + Occurrences(Tail(data), c)

RECURSIVE FirstSeen(_, _)
FirstSeen(data, seen) ==
    IF data = <<>> THEN seen
    ELSE IF \E i \in 1..Len(seen) : seen[i] = Head(data)
         THEN FirstSeen(Tail(data), seen)
         ELSE FirstSeen(Tail(data), Append(seen, Head(data)))

\* Counter(image_data).items(): (color, count) in order of first occurrence
CounterItems(data) ==
    LET keys == FirstSeen(data, <<>>)
    IN  [i \in 1..Len(keys) |-> <<keys[i], Occurrences(data, keys[i])>>]

\* [(color, count) for ... if count > 1]
KeepRepeated(items) == SelectSeq(items, LAMBDA cw : cw[2] > 1)

\* sorted(seq, key=itemgetter(k)): stable, ascending (k counts from 0, a TLA+
\* tuple from 1).  InsertSorted puts e behind every element whose key is not
\* greater, so equal keys keep their order.
RECURSIVE InsertSorted(_, _, _)
InsertSorted(s, e, k) ==
    IF s = <<>> THEN <<e>>
    ELSE IF Head(s)[k + 1] <= e[k + 1]
         THEN <<Head(s)>> \o InsertSorted(Tail(s), e, k)
         ELSE <<e>> \o s

RECURSIVE Sorted(_, _)
Sorted(s, k) ==
    IF s = <<>> THEN <<>>
    ELSE InsertSorted(Sorted(SubSeq(s, 1, Len(s) - 1), k), s[Len(s)], k)

\* A variant that forgets the sort
ColorWeightsUnsorted(img) == KeepRepeated(CounterItems(img.data))

ColorWeights(img) == Sorted(KeepRepeated(CounterItems(img.data)), 1)

-----------------------------------------------------------------------------
(* weighted_random.py *)

RECURSIVE RunningTotals(_, _)
RunningTotals(color_weights, running_total) ==
    IF color_weights = <<>> THEN <<>>
    ELSE <<running_total + Head(color_weights)[2]>>
         \o RunningTotals(Tail(color_weights), running_total + Head(color_weights)[2])

WeightedRandomColors(color_weights) ==
    [totals |-> RunningTotals(color_weights, 0),
     colors |-> [i \in 1..Len(color_weights) |-> color_weights[i][1]]]

\* A draw value rnd = random.random() * totals[-1] is kept in tenths (rnd10).
\* bisect.bisect_right(totals, rnd): how many totals are <= rnd (totals ascend)
BisectRight(totals, rnd10) ==
    Cardinality({i \in 1..Len(totals) : 10 * totals[i] <= rnd10})

\* The draw values of next(): [0, totals[-1]), in tenths
DrawValues(w) == 0..(10 * w.totals[Len(w.totals)] - 1)

\* colors[ind], ind counted from 0
SamplerNext(w, rnd10) == w.colors[BisectRight(w.totals, rnd10) + 1]

-----------------------------------------------------------------------------
(* painting.py *)

\* Vector.__add__, Vector.scale
VecAdd(u, v) == <<u[1] + v[1], u[2] + v[2]>>
Scale(v, n) == <<v[1] * n, v[2] * n>>

\* painting.py 26-27: the layout strategies
\* (also genetics.py 13: RANDOM is the same string there).  HORIZONTAL and
\* VERTICAL are the Vector objects (1, 0) and (0, 1), compared by identity:
\* they are named here and Vector gives their coordinates.
HORIZONTAL == "horizontal"
VERTICAL == "vertical"
RANDOM == "random"
Vector(strategy) == IF strategy = HORIZONTAL THEN <<1, 0>> ELSE <<0, 1>>

\* random.randint(2, 12) and random.randint(5, 200)
MinBrush == 2
MaxBrush == 12
MinDistance == 5
MaxDistance == 200

Stroke(color, brush_size, start, end) ==
    [color |-> color, brush_size |-> brush_size, start |-> start, end |-> end]

\* int(x ** .5)
Isqrt(x) == CHOOSE r \in 0..x : r * r <= x /\ (r + 1) * (r + 1) > x

\* What generate computes before its loop (68-88) from the draws d:
\* [strategy, brush_size, distance, length, start, rand, rnd], where start[i],
\* rand[i] and rnd[i] are the draws of stroke i.  num_lines and
\* strokes_per_line are 0 where the code would divide by them.
NumLines(img, d) ==
    IF d.strategy = HORIZONTAL THEN FloorDiv(img.size[2], 2 * d.brush_size)
    ELSE FloorDiv(img.size[1], 2 * d.brush_size)

StrokesPerLine(img, n, d) ==
    IF NumLines(img, d) = 0 THEN 0 ELSE FloorDiv(n, NumLines(img, d))

StrokeLength(img, n, d) ==
    IF d.strategy = HORIZONTAL
    THEN Max(FloorDiv(img.size[1], StrokesPerLine(img, n, d)) - 2 * d.brush_size, 0)
    ELSE IF d.strategy = VERTICAL
    THEN Max(FloorDiv(img.size[2], StrokesPerLine(img, n, d)) - 2 * d.brush_size, 0)
    ELSE d.length

\* h // (2 * brush_size) = 0 makes num_strokes // num_lines raise, and
\* num_strokes // num_lines = 0 makes w // strokes_per_line raise.
GenerateRaises(img, n, d) ==
    IF d.strategy # RANDOM /\ (NumLines(img, d) = 0 \/ StrokesPerLine(img, n, d) = 0)
    THEN "ZeroDivisionError"
    ELSE NoError

\* One pass of the loop (91-116); i counts from 0 as in the code.
GenerateStroke(img, color_generator, n, d, i) ==
    LET w == img.size[1]
        h == img.size[2]
        brush_size == d.brush_size
        strokes_per_line == StrokesPerLine(img, n, d)
        stroke_length == StrokeLength(img, n, d)
        color == Color(SamplerNext(color_generator, d.rnd[i + 1]))
    IN  IF d.strategy = HORIZONTAL
        THEN LET move_x == i % strokes_per_line
                 move_y == FloorDiv(i, strokes_per_line)
                 start == <<move_x * stroke_length + brush_size * (2 * move_x + 1),
                            brush_size * (2 * move_y + 1)>>
             IN  Stroke(color, brush_size, start,
                        VecAdd(start, Scale(Vector(d.strategy), stroke_length)))
        ELSE IF d.strategy = VERTICAL
        THEN LET move_x == FloorDiv(i, strokes_per_line)
                 move_y == i % strokes_per_line
                 start == <<brush_size * (2 * move_x + 1),
                            move_y * stroke_length + brush_size * (2 * move_y + 1)>>
             IN  Stroke(color, brush_size, start,
                        VecAdd(start, Scale(Vector(d.strategy), stroke_length)))
        ELSE LET start == d.start[i + 1]
                 rand_x == d.rand[i + 1][1]
                 rand_y == d.rand[i + 1][2]
             IN  Stroke(color, brush_size, start, <<Min(rand_x, w), Min(rand_y, h)>>)

\* The strokes generate builds, in order
GenerateStrokes(img, color_generator, n, d) ==
    [k \in 1..n |-> GenerateStroke(img, color_generator, n, d, k - 1)]

\* Whether d holds draws the code can make: each value in the range of its
\* random call, the per-stroke position draws only for the RANDOM layout.
IsDraw(img, color_generator, n, d) ==
    LET w == img.size[1]
        h == img.size[2]
    IN  /\ d.strategy \in {HORIZONTAL, VERTICAL, RANDOM}
        /\ d.brush_size \in MinBrush..MaxBrush
        /\ d.distance \in MinDistance..MaxDistance
        /\ IF d.strategy = RANDOM
           THEN /\ d.length \in 0..Isqrt(w * w + h * h)
                /\ \A k \in 1..n :
                      /\ d.start[k][1] \in 0..w /\ d.start[k][2] \in 0..h
                      /\ d.rand[k][1] \in (d.start[k][1] - d.distance)..(d.start[k][1] + d.distance)
                      /\ d.rand[k][2] \in (d.start[k][2] - d.distance)..(d.start[k][2] + d.distance)
           ELSE d.length = 0 /\ d.start = <<>> /\ d.rand = <<>>
        /\ IF GenerateRaises(img, n, d) = NoError
           THEN \A k \in 1..n : d.rnd[k] \in DrawValues(color_generator)
           ELSE d.rnd = <<>>

\* Painting.__init__ (33-37), as the value of a new Painting whose strokes
\* are the list object `strokes`
Painting(ref, cnv, strokes, len) ==
    [ref |-> ref, canvas |-> cnv, num_strokes |-> len, strokes |-> strokes]

-----------------------------------------------------------------------------
(* Objects.  A heap H = [paintings, lists] holds the Painting objects and the
   list objects of their strokes, each a sequence indexed by object id.
   Objects nothing refers to any more are dropped and the rest renumbered in
   the order the roots name them (which object gets which id is the
   allocator's business, not the program's). *)

IndexOf(seq, x) == CHOOSE i \in 1..Len(seq) : seq[i] = x

Heap(ps, ls) == [paintings |-> ps, lists |-> ls]

\* The strokes of Painting p, read through its list object
StrokesOf(H, p) == H.lists[H.paintings[p].strokes]

\* A new list object holding `strokes`, and a new Painting(ref, canvas, list)
\* (painting.py 33-37).  The new painting is the last one of the heap.
NewPainting(H, ref, cnv, strokes) ==
    Heap(Append(H.paintings, Painting(ref, cnv, Len(H.lists) + 1, Len(strokes))),
         Append(H.lists, strokes))

Compact(H, roots) ==
    LET order == FirstSeen(roots, <<>>)
        listOrder == FirstSeen([k \in 1..Len(order) |-> H.paintings[order[k]].strokes], <<>>)
    IN  Heap([k \in 1..Len(order) |->
                 [H.paintings[order[k]] EXCEPT !.strokes = IndexOf(listOrder, @)]],
             [k \in 1..Len(listOrder) |-> H.lists[listOrder[k]]])

\* The ids of `ids` after Compact(H, roots)
Renamed(roots, ids) ==
    [i \in 1..Len(ids) |-> IndexOf(FirstSeen(roots, <<>>), ids[i])]

\* A variant of __mul__ with an off-by-one in its loop
MulShort(H, self, other, canvas_pick, picks) ==
    NewPainting(H, H.paintings[self].ref,
                H.paintings[IF canvas_pick = 1 THEN self ELSE other].canvas,
                [i \in 1..(H.paintings[self].num_strokes - 1) |->
                    StrokesOf(H, IF picks[i] = 1 THEN self ELSE other)[i]])

\* A variant of __mul__ that starts from self's own list (strokes =
\* self.strokes) instead of a new one, and overwrites it in place
MulShared(H, self, other, canvas_pick, picks) ==
    LET strokes == [i \in 1..H.paintings[self].num_strokes |->
                       StrokesOf(H, IF picks[i] = 1 THEN self ELSE other)[i]]
        shared == H.paintings[self].strokes
    IN  Heap(Append(H.paintings,
                    Painting(H.paintings[self].ref,
                             H.paintings[IF canvas_pick = 1 THEN self ELSE other].canvas,
                             shared, Len(strokes))),
             [H.lists EXCEPT ![shared] = strokes])

\* Painting.__mul__ (39-50): canvas_pick and picks[i] are the results of
\* random.choice, 1 for self and 2 for other.  The child is the last
\* painting of the heap returned.
Mul(H, self, other, canvas_pick, picks) ==
    NewPainting(H, H.paintings[self].ref,
                H.paintings[IF canvas_pick = 1 THEN self ELSE other].canvas,
                [i \in 1..H.paintings[self].num_strokes |->
                    StrokesOf(H, IF picks[i] = 1 THEN self ELSE other)[i]])

\* other.strokes[i] raises IndexError when other holds fewer strokes
MulRaises(H, self, other, picks) ==
    IF \E i \in 1..H.paintings[self].num_strokes :
          picks[i] = 2 /\ i > Len(StrokesOf(H, other))
    THEN "IndexError"
    ELSE NoError

\* random.shuffle(x): every order of x's elements, given as a permutation
Shuffled(x, perm) == [i \in 1..Len(x) |-> x[perm[i]]]

-----------------------------------------------------------------------------
(* The random draws the model explores.  Every set below is a subset of the
   draws the code can make (IsDraw). *)

\* dice = [strategies, brushes, distances, corners, signs, rnds] names the
\* values the model lets each random call return.

\* Draws of a HORIZONTAL or VERTICAL generate: the layout, the brush, the
\* distance (drawn, unused) and one colour draw per stroke.
GridDraws(img, n, dice) ==
    UNION { LET base == [strategy |-> s, brush_size |-> b, distance |-> dist,
                         length |-> 0, start |-> <<>>, rand |-> <<>>, rnd |-> <<>>]
            IN  IF GenerateRaises(img, n, base) # NoError
                THEN {base}
                ELSE {[base EXCEPT !.rnd = r] : r \in [1..n -> dice.rnds]}
          : s \in dice.strategies \ {RANDOM}, b \in dice.brushes,
            dist \in dice.distances }

\* Per-stroke position draws of the RANDOM layout: the start at the origin
\* (corner 0), the centre (1) or the far corner (2) of the image, rand_x and
\* rand_y at the low end (sign -1), the middle (0) or the high end (1) of
\* their range.
PositionDraws(img, dist, dice) ==
    { LET start == <<(corner * img.size[1]) \div 2, (corner * img.size[2]) \div 2>>
      IN  <<start, <<start[1] + sign * dist, start[2] + sign * dist>>>>
      : corner \in dice.corners, sign \in dice.signs }

RandomDraws(img, n, dice) ==
    UNION { { [strategy |-> RANDOM, brush_size |-> b, distance |-> dist,
               length |-> 0,
               start |-> [k \in 1..n |-> pos[k][1]],
               rand |-> [k \in 1..n |-> pos[k][2]],
               rnd |-> r]
              : pos \in [1..n -> PositionDraws(img, dist, dice)],
                r \in [1..n -> dice.rnds] }
          : b \in dice.brushes,
            dist \in IF RANDOM \in dice.strategies THEN dice.distances ELSE {} }

Draws(img, n, dice) == GridDraws(img, n, dice) \cup RandomDraws(img, n, dice)

-----------------------------------------------------------------------------
(* The sampler on its own: built from an image as GeneticPainting.__init__
   builds it (56-65), then drawn from. *)

MaxCount == 5

Repeat(c, k) == [i \in 1..k |-> c]

\* An image of one row whose pixels are counts[i] times Palette[order[i]]
RowImage(order, counts) ==
    LET data == Repeat(Palette[order[1]], counts[1])
                \o Repeat(Palette[order[2]], counts[2])
                \o Repeat(Palette[order[3]], counts[3])
    IN  [size |-> <<Len(data), 1>>, data |-> data]

SamplerImages ==
    { RowImage(order, counts)
      : order \in Permutations(1..3), counts \in [1..3 -> 0..MaxCount] }
    \ {RowImage(<<1, 2, 3>>, <<0, 0, 0>>)}

Unset ==
    /\ num_strokes = NoneInt /\ pop_size = NoneInt /\ mutation_chance = NoneInt
    /\ fit_percentage = NoneInt /\ lucky_few = NoneInt /\ num_children = NoneInt
    /\ generation = NoneInt /\ canvas = NoneSeq /\ weights = NoneWeights
    /\ population = <<>> /\ paintings = <<>> /\ lists = <<>>
    /\ scored = <<>> /\ survivors = <<>>
    /\ call = [op |-> "none"] /\ raised = NoError
    /\ constructed = FALSE

InitSampler ==
    /\ image \in SamplerImages
    /\ Unset /\ ret = NoneSeq /\ generations = NoneInt

\* genetics.py 56-65; color_weights[-1] raises IndexError on an empty list
BuildSampler ==
    /\ call.op = "none"
    /\ LET color_weights == ColorWeights(image)
       IN  IF color_weights = <<>>
           THEN /\ raised' = "IndexError"
                /\ UNCHANGED <<constructed, canvas, weights>>
           ELSE /\ raised' = NoError
                /\ constructed' = TRUE
                /\ canvas' = color_weights[Len(color_weights)][1]
                /\ weights' = WeightedRandomColors(color_weights)
    /\ call' = [op |-> "build"]
    /\ UNCHANGED <<image, generations, num_strokes, pop_size, mutation_chance, fit_percentage,
                   lucky_few, num_children, generation, population, paintings,
                   lists, scored, survivors, ret>>

\* The draw values explored: x.0 and x.9, on either side of every total
EdgeDraws(w) == {r \in DrawValues(w) : r % 10 \in {0, 9}}

\* weighted_random.py 23-26
DrawColor ==
    /\ constructed
    /\ \E rnd10 \in EdgeDraws(weights) :
         /\ call' = [op |-> "next", rnd10 |-> rnd10]
         /\ ret' = SamplerNext(weights, rnd10)
    /\ raised' = NoError
    /\ UNCHANGED <<constructed, config, generation, population, paintings,
                   lists, scored, survivors>>

NextSampler == BuildSampler \/ DrawColor

SpecSampler == InitSampler /\ [][NextSampler]_vars

Range(s) == {s[i] : i \in DOMAIN s}

\* The pixel histogram {RED: 5, BLUE: 3, GREEN: 1}
ScenarioHistogram ==
    Range(CounterItems(image.data)) = {<<RED, 5>>, <<BLUE, 3>>, <<GREEN, 1>>}

\* The colour of the first cumulative bucket whose total exceeds the draw
FirstBucketOver(w, rnd10) ==
    w.colors[CHOOSE i \in 1..Len(w.totals) :
                /\ 10 * w.totals[i] > rnd10
                /\ \A j \in 1..(i - 1) : 10 * w.totals[j] <= rnd10]

\* C5 as stated: from the histogram {RED:5, BLUE:3, GREEN:1} the sampler keeps
\* {RED, BLUE}, has cumulative totals [5, 8], resolves a draw of 4.9 to RED and
\* a draw of 7.9 to BLUE, a draw resolving to the colour of the first bucket
\* whose total exceeds it.
C5_ScenarioAsStated ==
    (constructed /\ ScenarioHistogram) =>
        /\ Range(weights.colors) = {RED, BLUE}
        /\ weights.totals = <<5, 8>>
        /\ (call.op = "next" /\ call.rnd10 = 49) => ret = RED
        /\ (call.op = "next" /\ call.rnd10 = 79) => ret = BLUE
        /\ call.op = "next" => ret = FirstBucketOver(weights, call.rnd10)

\* C5 amended: the entries are sorted by ascending count before they are
\* accumulated, so the colours are [BLUE, RED], the cumulative totals are
\* [3, 8], and the draws 4.9 and 7.9 both resolve to RED (the first bucket
\* whose total exceeds them); BLUE is the answer below 3 only.
C5_ScenarioSorted ==
    (constructed /\ ScenarioHistogram) =>
        /\ weights.colors = <<BLUE, RED>>
        /\ weights.totals = <<3, 8>>
        /\ canvas = RED
        /\ (call.op = "next" /\ call.rnd10 = 49) => ret = RED
        /\ (call.op = "next" /\ call.rnd10 = 79) => ret = RED
        /\ (call.op = "next" /\ call.rnd10 = 29) => ret = BLUE
        /\ call.op = "next" => ret = FirstBucketOver(weights, call.rnd10)

\* C5 witness: the scenario's histogram, a draw of 7.9 resolved to RED
C5_Witness ==
    /\ constructed /\ ScenarioHistogram
    /\ call.op = "next" /\ call.rnd10 = 79 /\ ret = RED

-----------------------------------------------------------------------------
(* Painting.generate on its own, as a function of its arguments and draws. *)

MaxStrokes == 3

\* Image sizes on either side of 2 * brush_size for every brush size
GenSizes == {<<1, 1>>, <<5, 5>>, <<24, 5>>, <<5, 24>>, <<24, 24>>}

\* A sampler to pass as color_generator, and the gallery id passed as ref
GenSampler == WeightedRandomColors(<<<<BLUE, 1>>, <<RED, 2>>>>)
Ref == "1"

GenDice ==
    [strategies |-> {HORIZONTAL, VERTICAL, RANDOM},
     brushes |-> MinBrush..MaxBrush,
     distances |-> {MinDistance, MaxDistance},
     corners |-> {0, 2}, signs |-> {-1, 1}, rnds |-> {0}]

\* The painting generate returns (118), its strokes given as a value
GeneratedPainting(ref, img, color_generator, cnv, n, d) ==
    Painting(ref, Color(cnv), GenerateStrokes(img, color_generator, n, d), n)

InitGen ==
    /\ Unset /\ ret = NonePainting /\ generations = NoneInt
    /\ \E size \in GenSizes :
         image = [size |-> size, data |-> Repeat(RED, size[1] * size[2])]

Generate ==
    /\ call.op = "none"
    /\ \E n \in 0..MaxStrokes :
       \E d \in Draws(image, n, GenDice) :
         /\ IsDraw(image, GenSampler, n, d)
         /\ call' = [op |-> "generate", num_strokes |-> n, draws |-> d]
         /\ raised' = GenerateRaises(image, n, d)
         /\ ret' = IF GenerateRaises(image, n, d) = NoError
                   THEN GeneratedPainting(Ref, image, GenSampler, RED, n, d)
                   ELSE NonePainting
    /\ UNCHANGED <<constructed, config, generation, population, paintings,
                   lists, scored, survivors>>

NextGen == Generate

SpecGen == InitGen /\ [][NextGen]_vars

\* C6: for every image size, every num_strokes > 0, every brush size and every
\* layout, generate completes and returns a genome of exactly num_strokes
\* strokes.
C6_GenerateReturnsNumStrokes ==
    (call.op = "generate" /\ call.num_strokes > 0) =>
        /\ raised = NoError
        /\ Len(ret.strokes) = call.num_strokes
        /\ ret.num_strokes = call.num_strokes

-----------------------------------------------------------------------------
(* Recombination on its own: two genomes a (id 1) and b (id 2) of the same
   length, shuffled as mutate shuffles and recombined either way round. *)

MaxMulStrokes == 2

MulStrokes == { Stroke(RED, 2, <<0, 0>>, <<k, k>>) : k \in 1..2 }

InitMul ==
    /\ constructed = FALSE
    /\ image = [size |-> <<1, 1>>, data |-> <<RED>>]
    /\ num_strokes = NoneInt /\ pop_size = NoneInt /\ mutation_chance = NoneInt
    /\ fit_percentage = NoneInt /\ lucky_few = NoneInt /\ num_children = NoneInt
    /\ generation = NoneInt /\ canvas = NoneSeq /\ weights = NoneWeights
    /\ generations = NoneInt
    /\ scored = <<>> /\ survivors = <<>>
    /\ call = [op |-> "none"] /\ raised = NoError /\ ret = NoneInt
    /\ population = <<1, 2>>
    /\ \E n \in 0..MaxMulStrokes :
       \E sa \in [1..n -> MulStrokes], sb \in [1..n -> MulStrokes] :
       \E cb \in {RED, BLUE} :
         /\ paintings = <<Painting("1", RED, 1, n), Painting("2", cb, 2, n)>>
         /\ lists = <<sa, sb>>

\* genetics.py 148: random.shuffle(painting.strokes)
Shuffle ==
    /\ \E p \in {1, 2} :
       \E perm \in Permutations(1..Len(StrokesOf(Heap(paintings, lists), p))) :
         /\ lists' = [lists EXCEPT ![paintings[p].strokes] = Shuffled(@, perm)]
         /\ call' = [op |-> "shuffle", painting |-> p]
    /\ raised' = NoError
    /\ UNCHANGED <<constructed, config, generation, population, paintings,
                   scored, survivors, ret>>

\* a * b or b * a; call keeps what the operands were before the call, the
\* child of an earlier call is dropped.
Recombine ==
    /\ \E self \in {1, 2}, other \in {1, 2}, canvas_pick \in {1, 2} :
       \E picks \in [1..paintings[self].num_strokes -> {1, 2}] :
         LET H0 == Compact(Heap(paintings, lists), <<1, 2>>)
             H == Mul(H0, self, other, canvas_pick, picks)
         IN  /\ MulRaises(H0, self, other, picks) = NoError
             /\ paintings' = H.paintings
             /\ lists' = H.lists
             /\ ret' = Len(H.paintings)
             /\ call' = [op |-> "mul", self |-> self, other |-> other,
                         before |-> H0]
    /\ raised' = NoError
    /\ UNCHANGED <<constructed, config, generation, population, scored,
                   survivors>>

NextMul == Shuffle \/ Recombine

SpecMul == InitMul /\ [][NextMul]_vars

\* C7: a * b is a new genome of len(a.strokes) strokes whose stroke at every
\* index is a's or b's stroke at that index, whose canvas is a's or b's and
\* whose reference id is a's, and a and b are left as they were, also after
\* shuffles of a or b.
C7_Recombine ==
    call.op = "mul" =>
        LET H == Heap(paintings, lists)
            a == call.self
            b == call.other
            child == paintings[ret]
        IN  /\ ret \notin {a, b}
            /\ child.strokes \notin {paintings[a].strokes, paintings[b].strokes}
            /\ Len(StrokesOf(H, ret)) = Len(StrokesOf(H, a))
            /\ child.num_strokes = Len(StrokesOf(H, a))
            /\ \A i \in 1..Len(StrokesOf(H, ret)) :
                  StrokesOf(H, ret)[i] \in {StrokesOf(H, a)[i], StrokesOf(H, b)[i]}
            /\ child.canvas \in {paintings[a].canvas, paintings[b].canvas}
            /\ child.ref = paintings[a].ref
            /\ \A p \in {a, b} :
                  /\ paintings[p] = call.before.paintings[p]
                  /\ StrokesOf(H, p) = StrokesOf(call.before, p)

\* C7 witness: a child of two different genomes, taken after a shuffle
\* changed an operand, holding a stroke of each
C7_Witness ==
    /\ call.op = "mul" /\ call.self # call.other
    /\ LET H == Heap(paintings, lists)
       IN  /\ Len(StrokesOf(H, ret)) = 2
           /\ StrokesOf(H, 1)[1].end[1] > StrokesOf(H, 1)[2].end[1]
           /\ StrokesOf(H, ret)[1] = StrokesOf(H, call.self)[1]
           /\ StrokesOf(H, ret)[1] # StrokesOf(H, call.other)[1]
           /\ StrokesOf(H, ret)[2] = StrokesOf(H, call.other)[2]
           /\ StrokesOf(H, ret)[2] # StrokesOf(H, call.self)[2]

-----------------------------------------------------------------------------
(* genetics.py: the population engine *)

SPAN == "span"
SURVIVORS == "survivors"
\* a strategy string the code does not know
Zigzag == "zigzag"

\* Percentages and chances are multiples of 1/Den (with Den = 4 the code's
\* float products and quotients are exact)
Den == 4
MaxPop == 2
MaxGeneration == 1

\* score_func's results
Scores == {1, 2}

\* self.ref is Ref.  The images an engine is built on: 4 x 4 pixels of one
\* RGBA colour, and two pixels of different colours (no colour repeats).
EngineImages ==
    { [size |-> <<4, 4>>, data |-> Repeat(<<255, 0, 0, 255>>, 16)],
      [size |-> <<2, 1>>, data |-> <<RED, BLUE>>] }

\* What the random calls of generate return inside the engine
EngineDice ==
    [strategies |-> {HORIZONTAL, RANDOM}, brushes |-> {MinBrush},
     distances |-> {MinDistance}, corners |-> {1}, signs |-> {0}, rnds |-> {0}]

\* The constructor's arguments: every configuration of up to MaxPop genomes
\* of one stroke, and populations of two genomes of no or two strokes that
\* both survive.
EngineArgs ==
    [num_strokes : {1}, pop_size : 1..MaxPop, mutation_chance : {Den \div 2},
     fit_percentage : 1..Den, lucky_percentage : 0..Den]
    \cup
    [num_strokes : {0, 2}, pop_size : {2}, mutation_chance : {0, Den \div 2, Den},
     fit_percentage : {Den}, lucky_percentage : {0}]

\* s[-k:] and s[:k] for k >= 0; s[-0:] is s[0:], the whole list
PySliceLast(s, k) ==
    IF k = 0 THEN s ELSE SubSeq(s, Max(Len(s) - k, 0) + 1, Len(s))
PySliceFirst(s, k) == SubSeq(s, 1, Min(k, Len(s)))

\* random.sample(s, k) for 0 <= k <= len(s): k elements at distinct positions
Samples(s, k) ==
    { [i \in 1..k |-> s[f[i]]] :
        f \in {g \in [1..k -> 1..Len(s)] :
                 \A i, j \in 1..k : i # j => g[i] # g[j]} }

\* int(ceil(pop_size * lucky_percentage)), genetics.py 48
LuckyFew(pop, lucky_percentage) == (pop * lucky_percentage + Den - 1) \div Den

\* int(pop_size // (pop_size * fit_percentage + self.lucky_few)), 51-53
NumChildren(pop, fit, lf) == (pop * Den) \div (pop * fit + lf * Den)

\* int(self.pop_size * self.fit_percentage), 125
Winners == (pop_size * fit_percentage) \div Den

\* _generate_painting once per draw of ds, in order: the heap with the new
\* paintings behind those of H
RECURSIVE GenerateAll(_, _, _, _, _, _)
GenerateAll(H, ds, img, color_generator, cnv, n) ==
    IF ds = <<>> THEN H
    ELSE GenerateAll(
             NewPainting(H, Ref, Color(cnv),
                         GenerateStrokes(img, color_generator, n, Head(ds))),
             Tail(ds), img, color_generator, cnv, n)

GenerateAllRaises(ds, img, n) ==
    IF \E i \in 1..Len(ds) : GenerateRaises(img, n, ds[i]) # NoError
    THEN "ZeroDivisionError"
    ELSE NoError

Ids(from, to) == [i \in 1..(to - from + 1) |-> from + i - 1]

Init ==
    /\ image \in EngineImages
    /\ Unset /\ ret = NoneSeq /\ generations = NoneInt

\* GeneticPainting.__init__ (38-67), create_population included.  Nothing is
\* constructed when it raises.
Construct ==
    /\ ~constructed
    /\ call' = [op |-> "__init__"]
    /\ \E args \in EngineArgs :
         LET lf == LuckyFew(args.pop_size, args.lucky_percentage)
             color_weights == ColorWeights(image)
         IN  IF color_weights = <<>>
             THEN /\ raised' = "IndexError"
                  /\ UNCHANGED <<constructed, config, generation, population,
                                 paintings, lists, scored, survivors, ret>>
             ELSE LET cnv == color_weights[Len(color_weights)][1]
                      w == WeightedRandomColors(color_weights)
                  IN  \E ds \in [1..args.pop_size ->
                                    Draws(image, args.num_strokes, EngineDice)] :
                        IF GenerateAllRaises(ds, image, args.num_strokes) # NoError
                        THEN /\ raised' = GenerateAllRaises(ds, image, args.num_strokes)
                             /\ UNCHANGED <<constructed, config, generation,
                                            population, paintings, lists,
                                            scored, survivors, ret>>
                        ELSE LET H == GenerateAll(Heap(<<>>, <<>>), ds, image, w,
                                                   cnv, args.num_strokes)
                             IN  /\ raised' = NoError
                                 /\ constructed' = TRUE
                                 /\ num_strokes' = args.num_strokes
                                 /\ pop_size' = args.pop_size
                                 /\ mutation_chance' = args.mutation_chance
                                 /\ fit_percentage' = args.fit_percentage
                                 /\ lucky_few' = lf
                                 /\ generation' = 0
                                 /\ num_children' =
                                        NumChildren(args.pop_size, args.fit_percentage, lf)
                                 /\ canvas' = cnv
                                 /\ weights' = w
                                 /\ population' = Ids(1, args.pop_size)
                                 /\ paintings' = H.paintings
                                 /\ lists' = H.lists
                                 /\ UNCHANGED <<image, generations, scored, survivors, ret>>

\* create_population (74-86), called while the caller holds no scores or
\* survivors of the population it replaces
CreatePopulation ==
    /\ constructed
    /\ scored = <<>> /\ survivors = <<>>
    /\ call' = [op |-> "create_population"]
    /\ \E ds \in [1..pop_size -> Draws(image, num_strokes, EngineDice)] :
         IF GenerateAllRaises(ds, image, num_strokes) # NoError
         THEN /\ raised' = GenerateAllRaises(ds, image, num_strokes)
              /\ UNCHANGED <<population, paintings, lists, ret>>
         ELSE LET H == GenerateAll(Heap(<<>>, <<>>), ds, image, weights, canvas,
                                    num_strokes)
              IN  /\ raised' = NoError
                  /\ population' = Ids(1, pop_size)
                  /\ paintings' = H.paintings
                  /\ lists' = H.lists
                  /\ ret' = Ids(1, pop_size)
    /\ UNCHANGED <<constructed, config, generation, scored, survivors>>

\* score_population (88-108): ScoredPainting(score, painting, gen_id)
ScorePopulation ==
    /\ constructed
    /\ survivors = <<>>
    /\ call' = [op |-> "score_population"]
    /\ \E score_func \in [1..Len(population) -> Scores] :
         scored' = [i \in 1..Len(population) |->
                       <<score_func[i], population[i], i>>]
    /\ raised' = NoError
    /\ UNCHANGED <<constructed, config, generation, population, paintings,
                   lists, survivors, ret>>

PaintingsOf(scored_paintings) ==
    [i \in 1..Len(scored_paintings) |-> scored_paintings[i][2]]

\* cull_the_herd (110-139) on the caller's scores.  With SURVIVORS,
\* random.sample raises ValueError when it is asked for more than the slice
\* holds; with a strategy that is neither, `additions` is never bound.
CullTheHerd ==
    /\ constructed
    /\ scored # <<>>
    /\ \E strategy \in {SURVIVORS, RANDOM, Zigzag} :
         LET winners == Winners
             sorted_pop == Sorted(scored, 0)
             top == PySliceLast(sorted_pop, winners)
             pool == PySliceFirst(sorted_pop, winners)
             H0 == Heap(paintings, lists)
         IN  /\ call' = [op |-> "cull_the_herd", strategy |-> strategy]
             /\ IF strategy = SURVIVORS
                THEN IF lucky_few > Len(pool)
                     THEN /\ raised' = "ValueError"
                          /\ UNCHANGED <<population, paintings, lists, survivors>>
                     ELSE \E additions \in Samples(pool, lucky_few) :
                            LET result == PaintingsOf(top \o additions)
                                roots == population \o result
                            IN  /\ raised' = NoError
                                /\ survivors' = Renamed(roots, result)
                                /\ population' = Renamed(roots, population)
                                /\ paintings' = Compact(H0, roots).paintings
                                /\ lists' = Compact(H0, roots).lists
                ELSE IF strategy = RANDOM
                THEN \E ds \in [1..lucky_few -> Draws(image, num_strokes, EngineDice)] :
                       IF GenerateAllRaises(ds, image, num_strokes) # NoError
                       THEN /\ raised' = GenerateAllRaises(ds, image, num_strokes)
                            /\ UNCHANGED <<population, paintings, lists, survivors>>
                       ELSE LET H1 == Compact(H0, population)
                                H == GenerateAll(H1, ds, image, weights, canvas,
                                                 num_strokes)
                                additions == Ids(Len(H1.paintings) + 1,
                                                 Len(H.paintings))
                                kept == Renamed(population, PaintingsOf(top))
                            IN  /\ raised' = NoError
                                /\ survivors' = kept \o additions
                                /\ population' = Renamed(population, population)
                                /\ paintings' = H.paintings
                                /\ lists' = H.lists
                ELSE /\ raised' = "UnboundLocalError"
                     /\ UNCHANGED <<population, paintings, lists, survivors>>
    /\ scored' = [i \in 1..Len(scored) |->
                     <<scored[i][1], population'[i], scored[i][3]>>]
    /\ UNCHANGED <<constructed, config, generation, ret>>

\* The random.choice results of __mul__ worth telling apart: choosing
\* between two equal canvases, or between two equal strokes, gives the same
\* child either way, and 1 (self) stands for both.
CanvasPicks(H, self, other) ==
    IF H.paintings[self].canvas = H.paintings[other].canvas THEN {1} ELSE {1, 2}

StrokePicks(H, self, other) ==
    { picks \in [1..H.paintings[self].num_strokes -> {1, 2}] :
        \A i \in 1..H.paintings[self].num_strokes :
            picks[i] = 2 =>
                \/ i > Len(StrokesOf(H, other))
                \/ StrokesOf(H, other)[i] # StrokesOf(H, self)[i] }

\* One more child: any pair of `pairs` (positions in breeders), any canvas
\* and stroke choices.  An outcome is the heap, the children so far and,
\* where `tracked`, the positions of the breeders that were a parent of one
\* of the first pop_size children, the ones breed returns.
BreedChild(outcomes, breeders, pairs, tracked) ==
    UNION { { [heap |-> Mul(o.heap, breeders[pair[1]], breeders[pair[2]],
                            canvas_pick, picks),
               children |-> Append(o.children, Len(o.heap.paintings) + 1),
               bred |-> IF tracked /\ Len(o.children) < pop_size
                        THEN o.bred \cup {pair[1], pair[2]}
                        ELSE o.bred]
              : canvas_pick \in CanvasPicks(o.heap, breeders[pair[1]], breeders[pair[2]]),
                picks \in StrokePicks(o.heap, breeders[pair[1]], breeders[pair[2]]) }
          : o \in outcomes, pair \in pairs }

\* The children of plan[1], plan[2], ..., each a set of pairs to draw from
RECURSIVE BreedAll(_, _, _, _)
BreedAll(outcomes, breeders, plan, tracked) ==
    IF plan = <<>> THEN outcomes
    ELSE BreedAll(BreedChild(outcomes, breeders, Head(plan), tracked),
                  breeders, Tail(plan), tracked)

\* random.sample(breeders, 2): the breeders at two different positions.
\* Every genome of an engine has the engine's ref and num_strokes, so the
\* child of (j, i) is the child of (i, j) with the opposite choices, and one
\* order stands for both.
SamplePairs(breeders) ==
    { <<i, j>> : i \in 1..Len(breeders), j \in 1..Len(breeders) } \
    { <<i, j>> \in (1..Len(breeders)) \X (1..Len(breeders)) : i >= j }

\* The pairs each child of breed is drawn from (165-181), in the order the
\* children are appended.
BreedPlan(breeders, strategy) ==
    IF strategy = RANDOM
    THEN [k \in 1..pop_size |-> SamplePairs(breeders)]
    ELSE LET spanned == (Len(breeders) \div 2) * num_children
         IN  [k \in 1..Max(spanned, pop_size) |->
                 IF k <= spanned
                 THEN LET i == (k - 1) \div num_children
                      IN  {<<i + 1, Len(breeders) - i>>}
                 ELSE SamplePairs(breeders)]

\* A variant of breed without the final else: a strategy that is not RANDOM
\* is bred as SPAN
BreedRaisesNoElse(breeders, strategy) ==
    IF \E k \in 1..Len(BreedPlan(breeders, strategy)) :
          BreedPlan(breeders, strategy)[k] = {}
    THEN "ValueError"
    ELSE NoError

\* random.sample(breeders, 2) raises ValueError on fewer than two breeders
BreedRaises(breeders, strategy) ==
    IF strategy \notin {RANDOM, SPAN} THEN "BreedError"
    ELSE IF \E k \in 1..Len(BreedPlan(breeders, strategy)) :
               BreedPlan(breeders, strategy)[k] = {}
         THEN "ValueError"
         ELSE NoError

\* A variant of breed that returns every child the loops produced
NotTruncated(next_generation) == next_generation

\* next_generation[:self.pop_size] (183); RANDOM's loop stops at pop_size
Truncated(next_generation) == SubSeq(next_generation, 1, pop_size)

\* breed (150-189) on the caller's survivors.  The survivors and scores the
\* caller holds are of the population breed replaces; they are dropped.
\* call.bred is kept for SPAN, the strategy that is to pair every breeder.
Breed ==
    /\ constructed
    /\ generation < MaxGeneration
    /\ \E strategy \in {SPAN, RANDOM, Zigzag} :
         LET breeders == survivors
         IN  IF BreedRaises(breeders, strategy) # NoError
             THEN /\ raised' = BreedRaises(breeders, strategy)
                  /\ call' = [op |-> "breed", strategy |-> strategy,
                              breeders |-> Len(breeders)]
                  /\ UNCHANGED <<population, paintings, lists, scored,
                                 survivors, generation, ret>>
             ELSE \E o \in BreedAll({[heap |-> Heap(paintings, lists),
                                       children |-> <<>>, bred |-> {}]},
                                     breeders, BreedPlan(breeders, strategy),
                                     strategy = SPAN) :
                    LET next_generation == Truncated(o.children)
                        H == Compact(o.heap, next_generation)
                    IN  /\ raised' = NoError
                        /\ call' = [op |-> "breed", strategy |-> strategy,
                                    breeders |-> Len(breeders),
                                    bred |-> o.bred]
                        /\ population' = Renamed(next_generation, next_generation)
                        /\ paintings' = H.paintings
                        /\ lists' = H.lists
                        /\ generation' = generation + 1
                        /\ ret' = Renamed(next_generation, next_generation)
                        /\ scored' = <<>>
                        /\ survivors' = <<>>
    /\ UNCHANGED <<constructed, config>>

\* One pass of mutate's loop: the roll of genome population[i] fires or not
\* (random.random() < mutation_chance, the roll in units of 1/Den), and a
\* roll that fires shuffles the genome's list in place.
MutateOne(outcomes, i) ==
    UNION { { [lists |-> o.lists, fired |-> o.fired]
              : roll \in {r \in 0..(Den - 1) : ~(r < mutation_chance)} }
            \cup
            { [lists |-> [o.lists EXCEPT ![paintings[population[i]].strokes] =
                                            Shuffled(@, perm)],
               fired |-> o.fired \cup {i}]
              : roll \in {r \in 0..(Den - 1) : r < mutation_chance},
                perm \in Permutations(1..Len(o.lists[paintings[population[i]].strokes])) }
          : o \in outcomes }

RECURSIVE MutateFrom(_, _)
MutateFrom(outcomes, i) ==
    IF i > Len(population) THEN outcomes
    ELSE MutateFrom(MutateOne(outcomes, i), i + 1)

\* mutate (141-148), called as the driver calls it, while the caller holds
\* no scores or survivors (jop.py 139-142)
Mutate ==
    /\ constructed
    /\ scored = <<>> /\ survivors = <<>>
    /\ \E o \in MutateFrom({[lists |-> lists, fired |-> {}]}, 1) :
         /\ lists' = o.lists
         /\ call' = [op |-> "mutate", fired |-> o.fired]
    /\ raised' = NoError
    /\ UNCHANGED <<constructed, config, generation, population, paintings,
                   scored, survivors, ret>>

Next ==
    \/ Construct
    \/ CreatePopulation
    \/ ScorePopulation
    \/ CullTheHerd
    \/ Breed
    \/ Mutate

Spec == Init /\ [][Next]_vars

-----------------------------------------------------------------------------
(* jop.py: one pass of happy_little_accidents' loop over the images, the
   driver's run on one image (117-153).  Its locals `scored` and `survivors`
   are the variables of those names, its position is the call it made last,
   and world.generation counts the passes of its loop.  An exception of the
   engine is not caught: the run ends where `raised` is set. *)

\* max(scored, key=itemgetter(0)): the first entry of the highest score
Best(scored_paintings) ==
    scored_paintings[
        CHOOSE i \in 1..Len(scored_paintings) :
            \A j \in 1..Len(scored_paintings) :
                /\ j < i => scored_paintings[j][1] < scored_paintings[i][1]
                /\ j > i => scored_paintings[j][1] <= scored_paintings[i][1]]

InitDriver ==
    /\ image \in EngineImages
    /\ Unset /\ ret = NoneSeq
    /\ generations \in 1..(MaxGeneration + 1)

\* world = genetics.GeneticPainting(...) (123-127)
DriverConstruct ==
    /\ call.op = "none"
    /\ Construct

\* world.create_population() (128)
DriverCreatePopulation ==
    /\ call.op = "__init__" /\ raised = NoError
    /\ CreatePopulation

\* scored = world.score_population(score_painting) (131, 142)
DriverScore ==
    /\ call.op \in {"create_population", "mutate"} /\ raised = NoError
    /\ ScorePopulation

\* for generation in range(1, generations):
\*     survivors = world.cull_the_herd(scored, strategy=genetics.SURVIVORS)
DriverCull ==
    /\ call.op = "score_population"
    /\ generation < generations - 1
    /\ CullTheHerd
    /\ call'.strategy = SURVIVORS

\* world.breed(survivors) (139), the strategy left at its default
DriverBreed ==
    /\ call.op = "cull_the_herd" /\ raised = NoError
    /\ Breed
    /\ call'.strategy = SPAN

\* world.mutate() (140)
DriverMutate ==
    /\ call.op = "breed" /\ raised = NoError
    /\ Mutate

\* return best (153), best being the max of the latest scores (132, 143)
DriverReturn ==
    /\ call.op = "score_population"
    /\ ~(generation < generations - 1)
    /\ call' = [op |-> "return"]
    /\ ret' = Best(scored)
    /\ raised' = NoError
    /\ UNCHANGED <<constructed, config, generation, population, paintings,
                   lists, scored, survivors>>

NextDriver ==
    \/ DriverConstruct
    \/ DriverCreatePopulation
    \/ DriverScore
    \/ DriverCull
    \/ DriverBreed
    \/ DriverMutate
    \/ DriverReturn

SpecDriver == InitDriver /\ [][NextDriver]_vars

-----------------------------------------------------------------------------
(* The claims about the engine *)

\* The population as values: each genome's canvas and strokes, in order
Genomes(pop, ps, ls) ==
    [i \in 1..Len(pop) |-> [canvas |-> ps[pop[i]].canvas,
                            strokes |-> ls[ps[pop[i]].strokes]]]

SameMultiset(a, b) ==
    /\ Len(a) = Len(b)
    /\ \A x \in Range(a) \cup Range(b) : Occurrences(a, x) = Occurrences(b, x)

\* C1: for every configuration and every survivor sequence select returns
\* for it (select returns no empty sequence), breed with SPAN or RANDOM
\* completes and returns exactly pop_size genomes.
C1_BreedReturnsPopSize ==
    (call.op = "breed" /\ call.strategy \in {SPAN, RANDOM} /\ call.breeders >= 1) =>
        /\ raised = NoError
        /\ Len(ret) = pop_size
        /\ population = ret

\* C2: for both selection strategies, select on the scored population
\* completes and returns exactly winners + lucky_few genomes, the first
\* winners of them the highest-scoring entries (the last winners entries of
\* the scores in ascending order).
C2_SelectReturnsWinnersAndLucky ==
    (call.op = "cull_the_herd" /\ call.strategy \in {SURVIVORS, RANDOM}) =>
        LET sorted_pop == Sorted(scored, 0)
        IN  /\ raised = NoError
            /\ Len(survivors) = Winners + lucky_few
            /\ \A i \in 1..Winners :
                  survivors[i] = sorted_pop[Len(sorted_pop) - Winners + i][2]

\* C3: breed with a strategy other than SPAN or RANDOM ends in BreedError
\* and leaves the population (the genomes and their strokes) and the
\* generation counter as they were, whatever survivors it was passed.
C3_UnsupportedBreedStrategy ==
    [][(call'.op = "breed" /\ call'.strategy \notin {SPAN, RANDOM}) =>
          /\ raised' = "BreedError"
          /\ population' = population
          /\ paintings' = paintings
          /\ lists' = lists
          /\ generation' = generation]_vars

\* C3 witness: an unsupported strategy refused with survivors in hand that
\* SPAN would have bred into a new population
C3_Witness ==
    /\ call.op = "breed" /\ call.strategy = Zigzag /\ raised = "BreedError"
    /\ call.breeders >= 2 /\ Len(population) = MaxPop /\ generation = 0

\* C4: a mutate call leaves every genome of the population with the
\* multiset of strokes it had, and every genome whose roll did not fire with
\* the very same strokes in the same order, in every state initialize,
\* select, breed and mutate reach.
C4_MutatePreservesStrokes ==
    [][call'.op = "mutate" =>
          LET before == Genomes(population, paintings, lists)
              after == Genomes(population', paintings', lists')
          IN  /\ Len(after) = Len(before)
              /\ \A i \in 1..Len(before) :
                    /\ after[i].canvas = before[i].canvas
                    /\ SameMultiset(after[i].strokes, before[i].strokes)
                    /\ i \notin call'.fired => after[i] = before[i]]_vars

\* C4 witness: after a breed, a mutate whose roll fired on the first genome
\* only, the two genomes holding the same two strokes in opposite orders
C4_Witness ==
    /\ call.op = "mutate" /\ generation >= 1 /\ call.fired = {1}
    /\ Len(population) = 2
    /\ LET g == Genomes(population, paintings, lists)
       IN  /\ Len(g[1].strokes) = 2
           /\ g[1].strokes[1] # g[1].strokes[2]
           /\ g[1].strokes = <<g[2].strokes[2], g[2].strokes[1]>>

\* C8: each of the three invalid inputs is rejected with an error and yields
\* no population or survivor list: a histogram that is empty after keeping
\* the counts > 1, num_strokes = 0, and floor(pop_size * fit_percentage) = 0
\* at selection.  (Any exception counts as the rejection.)
C8_InvalidInputsRejected ==
    /\ (call.op = "__init__" /\ ColorWeights(image) = <<>>) =>
          (raised # NoError /\ ~constructed /\ population = <<>>)
    /\ (call.op = "__init__" /\ raised = NoError) => num_strokes # 0
    /\ (call.op = "cull_the_herd" /\ Winners = 0) =>
          (raised # NoError /\ survivors = <<>>)

\* C9: with SURVIVORS, no genome of the scored population is both among the
\* top winners and among the lucky additions: the survivor sequence select
\* returns holds no genome twice.
C9_LuckyFewNotWinners ==
    (call.op = "cull_the_herd" /\ call.strategy = SURVIVORS /\ raised = NoError) =>
        \A i, j \in 1..Len(survivors) : i # j => survivors[i] # survivors[j]

\* C10: with SPAN, for every survivor sequence of length >= 2, every
\* survivor is a parent of at least one genome of the returned generation.
C10_SpanBreedsEverySurvivor ==
    (call.op = "breed" /\ call.strategy = SPAN /\ raised = NoError
        /\ call.breeders >= 2) =>
        call.bred = 1..call.breeders

\* C11: once constructed, whatever sequence of create_population, score,
\* select, breed and mutate follows, the population holds exactly pop_size
\* genomes, each of exactly num_strokes strokes and of the engine's ref.
C11_PopulationShape ==
    constructed =>
        /\ Len(population) = pop_size
        /\ \A i \in 1..Len(population) :
              LET p == paintings[population[i]]
              IN  /\ Len(lists[p.strokes]) = num_strokes
                  /\ p.num_strokes = num_strokes
                  /\ p.ref = Ref

\* C11 witness: a SPAN breed whose pairs alone gave more than pop_size
\* children, and the population it left
C11_Witness ==
    /\ call.op = "breed" /\ call.strategy = SPAN /\ raised = NoError
    /\ (call.breeders \div 2) * num_children > pop_size
    /\ Len(population) = pop_size /\ pop_size = MaxPop

-----------------------------------------------------------------------------
(* The claim about the driver *)

\* The calls that may follow one another: initialize (__init__, then
\* create_population), score, then select, breed, mutate, score
DriverOrder ==
    {<<"none", "__init__">>, <<"__init__", "create_population">>,
     <<"create_population", "score_population">>,
     <<"score_population", "cull_the_herd">>, <<"cull_the_herd", "breed">>,
     <<"breed", "mutate">>, <<"mutate", "score_population">>,
     <<"score_population", "return">>}

\* C12: for G >= 1 a driver run executes initialize, score, then (select,
\* breed, mutate, score) exactly G - 1 times: every operation completes and
\* is followed by the next of that order, every select consumes the scores
\* of the population current at that moment, mutate directly follows breed,
\* and the run returns after G - 1 passes a highest-scoring entry of the
\* last scoring pass, the first one in population order on ties.  Stated
\* for the inputs the spec does not call invalid (a histogram that is not
\* empty, num_strokes > 0, at least one winner).
C12_DriverRun ==
    [][(/\ ColorWeights(image) # <<>>
        /\ constructed /\ num_strokes > 0 /\ Winners > 0) =>
          /\ raised' = NoError
          /\ <<call.op, call'.op>> \in DriverOrder
          /\ call'.op = "cull_the_herd" =>
                /\ generation < generations - 1
                /\ PaintingsOf(scored) = population
                /\ Len(scored) = pop_size
          /\ call'.op = "return" =>
                /\ generation' = generations' - 1
                /\ ret' \in Range(scored')
                /\ \A j \in 1..Len(scored') :
                      /\ scored'[j][1] <= ret'[1]
                      /\ scored'[j][1] = ret'[1] => ret'[3] <= scored'[j][3]
                /\ PaintingsOf(scored') = population']_vars

=============================================================================
